---- MODULE Spec2Model ----
(***************************************************************************)
(* Model of waiting.py: the Animation class (a background thread printing  *)
(* a cycling frame on the current terminal line until a flag is set) and   *)
(* the wait_for_it decorator that runs a callable inside `with Animation`. *)
(*                                                                         *)
(* One caller thread executes client code (direct calls, with-blocks,      *)
(* wrapped calls, possibly nested); every start() adds one loop thread.    *)
(* CPython's interpreter lock makes each attribute read/write and each     *)
(* print call one atomic step; the steps of different threads interleave   *)
(* freely.                                                                 *)
(***************************************************************************)
EXTENDS Integers, Sequences, FiniteSets, TLC

\* ---------------------------------------------------------------- bounds
NumInst  == 2      \* Animation objects the caller may create
MaxLoops == 2      \* threads ever launched by start()
MaxOps   == 3      \* operations the caller's code invokes
MaxLate  == 2      \* saturation of the per-loop late-frame counter

Inst == 1..NumInst

\* ------------------------------------------------------- frames and line
S == " "
D == "."

\* Animation.symbol: the list handed to itertools.cycle
symbol ==
  << <<S,D,D,D,S,S,S,S,S,S>>,
     <<S,S,D,D,D,S,S,S,S,S>>,
     <<S,S,S,D,D,D,S,S,S,S>>,
     <<S,S,S,S,D,D,D,S,S,S>>,
     <<S,S,S,S,S,D,D,D,S,S>>,
     <<S,S,S,S,S,S,D,D,D,S>>,
     <<S,S,S,S,S,S,S,D,D,D>>,
     <<S,D,S,S,S,S,S,S,D,D>>,
     <<S,D,D,S,S,S,S,S,S,D>> >>

NumFrames == Len(symbol)

\* (variant: a clearing string one blank short)
ClearFrameShort == <<S,S,S,S,S,S,S,S,S>>

\* the string stop() prints
ClearFrame == <<S,S,S,S,S,S,S,S,S,S>>

\* print(s, sep='', end='\r', flush=True) on a terminal: s is laid over the
\* line from column 0 and the carriage return moves back to column 0; what
\* was on the line beyond Len(s) stays visible.
Overwrite(old, s) ==
  IF Len(s) >= Len(old) THEN s ELSE s \o SubSeq(old, Len(s) + 1, Len(old))

\* (variant: a new cycle is built for every call, so every call returns the
\* first frame)
CycleNextRestart(c) == [val |-> 1, cur |-> c - c]

\* next() of itertools.cycle: the element under the cursor, cursor advanced
\* cyclically
CycleNext(c) == [val |-> c + 1, cur |-> (c + 1) % NumFrames]

\* ---------------------------------------------------------- caller data
Args   == {"a1", "a2"}
Values == {"v1", "v2"}
Errors == {"e1", "e2"}
None   == "None"

\* (variant: __exit__ returns a true value)
ExitResultTrue == TRUE

\* __exit__ has no return statement: it returns None, which the with
\* statement reads as "do not suppress the exception"
ExitResult == FALSE

VARIABLES
  kind,       \* per instance: "free" (not yet created), "direct", "with", "wrapped"
  finished,   \* per instance: self.finished
  loops,      \* the threads launched by start(), in launch order
  cursor,     \* position of the class-level itertools.cycle
  out,        \* the last string written to stdout (<<>>: nothing yet)
  line,       \* what the terminal line shows
  stack,      \* caller: the open with-blocks / wrapped calls, innermost last
  cpc,        \* caller: position in the code of the innermost open frame
  stopping,   \* caller: the instance whose stop() is executing, 0 if none
  exc,        \* caller: the exception in flight, None if none
  stopCalls,  \* per instance: stop() calls begun
  clears,     \* per instance: clearing frames written
  ops,        \* operations the caller's code has invoked
  startCalls, \* per instance: start() calls made
  last        \* record of the last with-block / wrapped call that was left

vars == <<kind, finished, loops, cursor, out, line, stack, cpc, stopping,
          exc, stopCalls, clears, ops, startCalls, last>>

NoResult == [kind |-> None, inst |-> 0, args |-> None, fcalls |-> 0,
             fargs |-> None, fout |-> None, raised |-> None,
             ret |-> None, err |-> None]

Init ==
  /\ kind = [i \in Inst |-> "free"]
  /\ finished = [i \in Inst |-> FALSE]
  /\ loops = <<>>
  /\ cursor = 0
  /\ out = <<>>
  /\ line = <<>>
  /\ stack = <<>>
  /\ cpc = "run"
  /\ stopping = 0
  /\ exc = None
  /\ stopCalls = [i \in Inst |-> 0]
  /\ clears = [i \in Inst |-> 0]
  /\ ops = 0
  /\ startCalls = [i \in Inst |-> 0]
  /\ last = NoResult

Depth == Len(stack)
Top == stack[Len(stack)]
Pop == SubSeq(stack, 1, Len(stack) - 1)
SetTop(fr) == [stack EXCEPT ![Len(stack)] = fr]

Free == {i \in Inst : kind[i] = "free"}
Fresh == CHOOSE i \in Free : \A j \in Free : i <= j
Named == {i \in Inst : kind[i] \in {"direct", "with"}}

\* ------------------------------------------------------------ Animation
\* Animation.__init__
AnimationInit(i, k) ==
  /\ kind' = [kind EXCEPT ![i] = k]
  /\ finished' = [finished EXCEPT ![i] = FALSE]

\* (variant: the thread runs the loop body once before it looks at the flag)
LaunchBodyFirst(i) ==
  /\ startCalls' = [startCalls EXCEPT ![i] = @ + 1]
  /\ loops' = Append(loops, [inst |-> i, pc |-> "print", late |-> 0,
                             born |-> finished[i]])

\* (variant: start() does nothing while a loop of the instance is running)
LaunchGuarded(i) ==
  /\ startCalls' = [startCalls EXCEPT ![i] = @ + 1]
  /\ loops' = IF \E l \in 1..Len(loops) :
                     loops[l].inst = i /\ loops[l].pc # "done"
                THEN loops
                ELSE Append(loops, [inst |-> i, pc |-> "check", late |-> 0,
                                    born |-> finished[i]])

\* Animation.start: threading.Thread(target=self._animate).start().
\* born records whether the flag was already set when the thread was made.
Launch(i) ==
  /\ startCalls' = [startCalls EXCEPT ![i] = @ + 1]
  /\ loops' = Append(loops, [inst |-> i, pc |-> "check", late |-> 0,
                             born |-> finished[i]])

\* (variant: the loop never looks at the flag)
LoopCondNever(l) == l \in 1..Len(loops)

\* (variant: the frames are a plain iterator, which runs out after one pass)
LoopCondExhaust(l) == ~finished[loops[l].inst] /\ cursor # NumFrames - 1

\* the loop condition of _animate
LoopCond(l) == ~finished[loops[l].inst]

\* (variant: the loop that sees the flag takes it back on its way out)
LoopCheckConsume(l) ==
  /\ l \in 1..Len(loops)
  /\ loops[l].pc = "check"
  /\ loops' = [loops EXCEPT ![l].pc = IF LoopCond(l) THEN "print" ELSE "done"]
  /\ finished' = IF LoopCond(l) THEN finished
                 ELSE [finished EXCEPT ![loops[l].inst] = FALSE]
  /\ UNCHANGED <<kind, cursor, out, line, stack, cpc, stopping,
                 exc, stopCalls, clears, ops, last, startCalls>>

\* _animate: `while not self.finished`
LoopCheck(l) ==
  /\ l \in 1..Len(loops)
  /\ loops[l].pc = "check"
  /\ loops' = [loops EXCEPT ![l].pc = IF LoopCond(l) THEN "print" ELSE "done"]
  /\ UNCHANGED <<kind, finished, cursor, out, line, stack, cpc, stopping,
                 exc, stopCalls, clears, ops, last,
                 startCalls>>

\* _animate, the loop body: print(next(self.symbol), sep='', end='\r',
\* flush=True), then time.sleep(0.075), after which the thread is back at
\* the loop condition
LoopPrint(l) ==
  /\ l \in 1..Len(loops)
  /\ loops[l].pc = "print"
  /\ cursor' = CycleNext(cursor).cur
  /\ out' = symbol[CycleNext(cursor).val]
  /\ line' = Overwrite(line, symbol[CycleNext(cursor).val])
  /\ loops' = [loops EXCEPT
       ![l].pc = "check",
       ![l].late = IF finished[loops[l].inst] /\ loops[l].late < MaxLate
                   THEN loops[l].late + 1 ELSE loops[l].late]
  /\ UNCHANGED <<kind, finished, stack, cpc, stopping,
                 exc, stopCalls, clears, ops, last,
                 startCalls>>

LoopStep(l) == LoopCheck(l) \/ LoopPrint(l)

\* (variant: stop flips the flag)
StopSetToggle(i) ==
  /\ finished' = [finished EXCEPT ![i] = ~@]
  /\ stopCalls' = [stopCalls EXCEPT ![i] = @ + 1]
  /\ stopping' = i

\* (variant: the flag is a class attribute, shared by all instances)
StopSetAll(i) ==
  /\ finished' = [j \in Inst |-> TRUE]
  /\ stopCalls' = [stopCalls EXCEPT ![i] = @ + 1]
  /\ stopping' = i

\* Animation.stop, first statement: self.finished = True
StopSet(i) ==
  /\ finished' = [finished EXCEPT ![i] = TRUE]
  /\ stopCalls' = [stopCalls EXCEPT ![i] = @ + 1]
  /\ stopping' = i

\* (variant: the line is cleared on the first stop only)
StopWriteOnce ==
  /\ out' = IF clears[stopping] = 0 THEN ClearFrame ELSE out
  /\ line' = IF clears[stopping] = 0 THEN Overwrite(line, ClearFrame) ELSE line
  /\ clears' = [clears EXCEPT ![stopping] = IF @ = 0 THEN 1 ELSE @]
  /\ stopping' = 0

\* Animation.stop, second statement: print('          ', end='\r', ...)
StopWrite ==
  /\ out' = ClearFrame
  /\ line' = Overwrite(line, ClearFrame)
  /\ clears' = [clears EXCEPT ![stopping] = @ + 1]
  /\ stopping' = 0

\* --------------------------------------------------------------- caller
U_anim == <<kind, finished, loops, cursor, out, line, stopping, stopCalls,
            clears, ops, startCalls>>

\* a = Animation()
New ==
  /\ cpc = "run"
  /\ ops < MaxOps
  /\ Free # {}
  /\ AnimationInit(Fresh, "direct")
  /\ ops' = ops + 1
  /\ UNCHANGED <<loops, cursor, out, line, stack, cpc, stopping, exc,
                 stopCalls, clears, last,
                 startCalls>>

\* (variant: start() re-arms the instance)
StartResets(i) ==
  /\ cpc = "run"
  /\ ops < MaxOps
  /\ i \in Named
  /\ Len(loops) < MaxLoops
  /\ Launch(i)
  /\ finished' = [finished EXCEPT ![i] = FALSE]
  /\ ops' = ops + 1
  /\ UNCHANGED <<kind, cursor, out, line, stack, cpc, stopping,
                 exc, stopCalls, clears, last>>

\* a.start(), called directly
Start(i) ==
  /\ cpc = "run"
  /\ ops < MaxOps
  /\ i \in Named
  /\ Len(loops) < MaxLoops
  /\ Launch(i)
  /\ ops' = ops + 1
  /\ UNCHANGED <<kind, finished, cursor, out, line, stack, cpc, stopping,
                 exc, stopCalls, clears, last>>

\* a.stop(), called directly: first statement
Stop(i) ==
  /\ cpc = "run"
  /\ ops < MaxOps
  /\ i \in Named
  /\ StopSet(i)
  /\ cpc' = "stop"
  /\ ops' = ops + 1
  /\ UNCHANGED <<kind, loops, cursor, out, line, stack, exc, clears, last,
                 startCalls>>

\* (variant: stop joins the threads of the instance before it clears the line)
StopPrintJoin ==
  /\ cpc \in {"stop", "exit_stop"}
  /\ \A l \in 1..Len(loops) : loops[l].inst = stopping => loops[l].pc = "done"
  /\ StopWrite
  /\ cpc' = IF cpc = "stop" THEN "run" ELSE "exit_ret"
  /\ UNCHANGED <<kind, finished, loops, cursor, stack, exc, stopCalls, ops,
                 last, startCalls>>

\* stop(), second statement, and return to where stop() was called
StopPrint ==
  /\ cpc \in {"stop", "exit_stop"}
  /\ StopWrite
  /\ cpc' = IF cpc = "stop" THEN "run" ELSE "exit_ret"
  /\ UNCHANGED <<kind, finished, loops, cursor, stack, exc, stopCalls, ops,
                 last,
                 startCalls>>

NewFrame(k, i, a) ==
  [kind |-> k, inst |-> i, args |-> a, fcalls |-> 0, fargs |-> None,
   fout |-> None, raised |-> None]

\* `with Animation() as a:` -- the constructor call
WithInit ==
  /\ cpc = "run"
  /\ ops < MaxOps
  /\ Free # {}
  /\ Len(loops) < MaxLoops
  /\ AnimationInit(Fresh, "with")
  /\ stack' = Append(stack, NewFrame("with", Fresh, None))
  /\ cpc' = "enter"
  /\ ops' = ops + 1
  /\ UNCHANGED <<loops, cursor, out, line, stopping, exc, stopCalls,
                 clears, last,
                 startCalls>>

\* wrapped(*args, **kwargs) is called: `with Animation():` -- the constructor
WrappedCall(a) ==
  /\ cpc = "run"
  /\ ops < MaxOps
  /\ Free # {}
  /\ Len(loops) < MaxLoops
  /\ AnimationInit(Fresh, "wrapped")
  /\ stack' = Append(stack, NewFrame("wrapped", Fresh, a))
  /\ cpc' = "enter"
  /\ ops' = ops + 1
  /\ UNCHANGED <<loops, cursor, out, line, stopping, exc, stopCalls,
                 clears, last,
                 startCalls>>

\* (variant: the target is called instead of being handed to the thread, so
\* the caller sits in the loop)
EnterInline ==
  /\ cpc = "enter"
  /\ Launch(Top.inst)
  /\ cpc' = "blocked"
  /\ UNCHANGED <<kind, finished, cursor, out, line, stack, stopping, exc,
                 stopCalls, clears, ops, last>>

\* (variant: __enter__ returns self without calling start)
EnterNoStart ==
  /\ cpc = "enter"
  /\ cpc' = IF Top.kind = "wrapped" THEN "call" ELSE "run"
  /\ UNCHANGED <<kind, finished, loops, cursor, out, line, stack, stopping,
                 exc, stopCalls, clears, ops, startCalls, last>>

\* Animation.__enter__: self.start(); return self
Enter ==
  /\ cpc = "enter"
  /\ Launch(Top.inst)
  /\ cpc' = IF Top.kind = "wrapped" THEN "call" ELSE "run"
  /\ UNCHANGED <<kind, finished, cursor, out, line, stack, stopping, exc,
                 stopCalls, clears, ops, last>>

\* the arguments wrapped hands to func
PassArgs(fr) == fr.args

\* wrapped: func(*args, **kwargs) is invoked
CallFunc ==
  /\ cpc = "call"
  /\ stack' = SetTop([Top EXCEPT !.fcalls = @ + 1, !.fargs = PassArgs(Top)])
  /\ cpc' = "run"
  /\ UNCHANGED <<U_anim, exc, last>>

\* func finishes: it returns a value or raises an error
FuncEnd(o) ==
  /\ cpc = "run"
  /\ Depth > 0
  /\ Top.kind = "wrapped"
  /\ IF o \in Values
       THEN /\ stack' = SetTop([Top EXCEPT !.fout = o])
            /\ exc' = exc
       ELSE /\ stack' = SetTop([Top EXCEPT !.raised = o])
            /\ exc' = o
  /\ cpc' = "exit"
  /\ UNCHANGED <<U_anim, last>>

\* the body of a with-block runs to its end
BlockEnd ==
  /\ cpc = "run"
  /\ Depth > 0
  /\ Top.kind = "with"
  /\ cpc' = "exit"
  /\ UNCHANGED <<U_anim, stack, exc, last>>

\* the body of a with-block raises
Raise(e) ==
  /\ cpc = "run"
  /\ Depth > 0
  /\ Top.kind = "with"
  /\ stack' = SetTop([Top EXCEPT !.raised = e])
  /\ exc' = e
  /\ cpc' = "exit"
  /\ UNCHANGED <<U_anim, last>>

\* (variant: __exit__ stops the animation on normal completion only)
ExitStopUnlessError ==
  /\ cpc = "exit"
  /\ IF exc = None
       THEN /\ StopSet(Top.inst)
            /\ cpc' = "exit_stop"
       ELSE /\ UNCHANGED <<finished, stopCalls, stopping>>
            /\ cpc' = "exit_ret"
  /\ UNCHANGED <<kind, loops, cursor, out, line, stack, exc, clears, ops,
                 last,
                 startCalls>>

\* Animation.__exit__: self.stop() -- first statement of stop
ExitStop ==
  /\ cpc = "exit"
  /\ StopSet(Top.inst)
  /\ cpc' = "exit_stop"
  /\ UNCHANGED <<kind, loops, cursor, out, line, stack, exc, clears, ops,
                 last,
                 startCalls>>

\* (variant: the `return` is missing)
WrappedReturnNone(fr) == IF fr.fout = None THEN None ELSE None

\* wrapped: `return func(*args, **kwargs)`
WrappedReturn(fr) == fr.fout

\* __exit__ returns and the with statement completes: the exception in
\* flight is re-raised unless __exit__ returned a true value; otherwise the
\* block's value (for wrapped, the return value) goes to the caller.
ExitReturn ==
  /\ cpc = "exit_ret"
  /\ LET fr  == Top
         err == IF exc # None /\ ~ExitResult THEN exc ELSE None
         ret == IF exc = None /\ fr.kind = "wrapped"
                  THEN WrappedReturn(fr) ELSE None
     IN /\ last' = [kind |-> fr.kind, inst |-> fr.inst, args |-> fr.args,
                    fcalls |-> fr.fcalls, fargs |-> fr.fargs,
                    fout |-> fr.fout, raised |-> fr.raised,
                    ret |-> ret, err |-> err]
        /\ exc' = err
  /\ stack' = Pop
  /\ cpc' = "left"
  /\ UNCHANGED U_anim

\* the code around the block / the wrapped call goes on: it takes the value,
\* or the error leaves the enclosing block or function as well; at the top
\* level the error is caught
Resume ==
  /\ cpc = "left"
  /\ last' = NoResult
  /\ IF exc # None /\ Depth > 0
       THEN /\ stack' = SetTop([Top EXCEPT !.raised = exc])
            /\ exc' = exc
            /\ cpc' = "exit"
       ELSE /\ stack' = stack
            /\ exc' = None
            /\ cpc' = "run"
  /\ UNCHANGED U_anim

CallerStep ==
  \/ New
  \/ \E i \in Inst : Start(i)
  \/ \E i \in Inst : Stop(i)
  \/ StopPrint
  \/ WithInit
  \/ \E a \in Args : WrappedCall(a)
  \/ Enter
  \/ CallFunc
  \/ \E o \in Values \cup Errors : FuncEnd(o)
  \/ BlockEnd
  \/ \E e \in Errors : Raise(e)
  \/ ExitStop
  \/ ExitReturn
  \/ Resume

Next ==
  \/ CallerStep
  \/ \E l \in 1..MaxLoops : LoopStep(l)

Spec == Init /\ [][Next]_vars

\* The Animation objects alone, under their most general client: the
\* instances exist (the state after `a = Animation()` for each of them) and
\* the caller calls start() and stop() on them in any order. Every sequence
\* of start() and stop() calls a with-block or a wrapped call makes is one
\* of these.
AnimInit ==
  /\ kind = [i \in Inst |-> "direct"]
  /\ finished = [i \in Inst |-> FALSE]
  /\ loops = <<>>
  /\ cursor = 0
  /\ out = <<>>
  /\ line = <<>>
  /\ stack = <<>>
  /\ cpc = "run"
  /\ stopping = 0
  /\ exc = None
  /\ stopCalls = [i \in Inst |-> 0]
  /\ clears = [i \in Inst |-> 0]
  /\ ops = 0
  /\ startCalls = [i \in Inst |-> 0]
  /\ last = NoResult

AnimNext ==
  \/ \E i \in Inst : Start(i)
  \/ \E i \in Inst : Stop(i)
  \/ StopPrint
  \/ \E l \in 1..MaxLoops : LoopStep(l)

AnimSpec == AnimInit /\ [][AnimNext]_vars

\* every launched thread keeps being scheduled; the caller may pause for
\* ever at any point
AnimFairSpec ==
  /\ AnimInit
  /\ [][AnimNext]_vars
  /\ \A l \in 1..MaxLoops : WF_vars(LoopStep(l))

\* The decorator alone, under its most general client: the program calls
\* functions decorated with wait_for_it, one after the other or one from
\* inside the other, and does nothing else with an Animation.
WrappedNext ==
  \/ \E a \in Args : WrappedCall(a)
  \/ Enter
  \/ CallFunc
  \/ \E o \in Values \cup Errors : FuncEnd(o)
  \/ ExitStop
  \/ StopPrint
  \/ ExitReturn
  \/ Resume
  \/ \E l \in 1..MaxLoops : LoopStep(l)

WrappedSpec == Init /\ [][WrappedNext]_vars

\* The context manager alone, under its most general client: the program
\* opens with-blocks on new Animations, one after the other or one inside
\* the other, and calls start() and stop() on the managed objects at will.
WithNext ==
  \/ WithInit
  \/ Enter
  \/ \E i \in Inst : Start(i)
  \/ \E i \in Inst : Stop(i)
  \/ StopPrint
  \/ BlockEnd
  \/ \E e \in Errors : Raise(e)
  \/ ExitStop
  \/ ExitReturn
  \/ Resume
  \/ \E l \in 1..MaxLoops : LoopStep(l)

WithSpec == Init /\ [][WithNext]_vars

\* ================================================================ claims
LoopIds == 1..MaxLoops
Launched(l) == l \in 1..Len(loops)
Alive(l) == Launched(l) /\ loops[l].pc # "done"
Terminated(l) == Launched(l) /\ loops[l].pc = "done"
StopCalled(i) == stopCalls[i] > 0
InStop == cpc \in {"stop", "exit_stop"}
IsFrame(s) == \E k \in 1..NumFrames : s = symbol[k]
FrameWidth == 10

\* C1: once stop() has been called on an instance, every loop launched on it
\* eventually terminates (the loop thread being scheduled fairly), and a
\* terminated loop takes no further step, so it writes nothing any more.
C1_StopTerminatesLoop ==
  /\ \A l \in LoopIds :
       (Launched(l) /\ StopCalled(loops[l].inst)) ~> Terminated(l)
  /\ [][\A l \in LoopIds : Terminated(l) => loops'[l] = loops[l]]_vars

C1_Witness ==
  \E l \in LoopIds : /\ Terminated(l)
                     /\ StopCalled(loops[l].inst)
                     /\ ~InStop

\* C2: for a single Animation that was started once and stopped, whenever
\* stop() has returned and the loop has terminated, the last string written
\* is the clearing frame.
C2_LineCleanAfterStop ==
  \A i \in Inst :
    ( /\ \A j \in Inst \ {i} : kind[j] = "free"
      /\ Len(loops) = 1
      /\ loops[1].inst = i
      /\ Terminated(1)
      /\ StopCalled(i)
      /\ ~InStop )
    => (out = ClearFrame /\ line = ClearFrame)

\* C3: a loop writes at most one frame after finished became true on its
\* instance.
C3_AtMostOneLateFrame ==
  \A l \in LoopIds : Launched(l) => loops[l].late <= 1

C3_Witness ==
  \E l \in LoopIds : Terminated(l) /\ loops[l].late = 1

\* C4: when the body of a with-block raises, the exit action has called
\* stop() on the instance (finished true, clearing frame written) and the
\* error that leaves the with statement is the error the body raised.
C4_WithErrorCleanup ==
  /\ (cpc = "left" /\ last.kind = "with" /\ last.raised # None) =>
       /\ finished[last.inst]
       /\ clears[last.inst] >= 1
       /\ last.err = last.raised
       /\ exc = last.raised
  /\ (cpc \in {"exit", "exit_stop", "exit_ret"} /\ Top.kind = "with"
        /\ Top.raised # None) => exc = Top.raised

C4_Witness ==
  /\ cpc = "left"
  /\ last.kind = "with"
  /\ last.raised = "e2"
  /\ exc = "e2"
  /\ clears[last.inst] = 1

\* C5: when func returns normally, wrapped has invoked it exactly once, with
\* the arguments wrapped was called with, and returns the value it returned.
C5_ReturnPassthrough ==
  (cpc = "left" /\ last.kind = "wrapped" /\ last.raised = None) =>
    /\ last.fcalls = 1
    /\ last.fargs = last.args
    /\ last.fout \in Values
    /\ last.ret = last.fout
    /\ exc = None

C5_Witness ==
  /\ cpc = "left"
  /\ last.kind = "wrapped"
  /\ last.args = "a2"
  /\ last.fout = "v2"
  /\ last.ret = "v2"

\* C6: when func raises inside wrapped, the wrapper's Animation has been
\* stopped (finished true, clearing frame written) by the time the error
\* leaves wrapped, and the error that leaves is the one func raised.
C6_WrappedErrorPassthrough ==
  (cpc = "left" /\ last.kind = "wrapped" /\ last.raised # None) =>
    /\ StopCalled(last.inst)
    /\ finished[last.inst]
    /\ clears[last.inst] = stopCalls[last.inst]
    /\ last.err = last.raised
    /\ exc = last.raised
    /\ last.ret = None

C6_Witness ==
  /\ cpc = "left"
  /\ last.kind = "wrapped"
  /\ last.fcalls = 1
  /\ last.raised = "e1"
  /\ exc = "e1"

C9_NonBlockingStart ==
  /\ [][Len(loops') > Len(loops) =>
          /\ out' = out /\ line' = line /\ cursor' = cursor
          /\ SubSeq(loops', 1, Len(loops)) = loops
          /\ loops'[Len(loops')].pc = "check"
          /\ loops'[Len(loops')].late = 0
          /\ cpc' \in {"run", "call"}]_vars
  /\ []((cpc # "run" \/ Depth > 0) => ENABLED CallerStep)

C9_Witness ==
  /\ cpc = "run"
  /\ Depth > 0
  /\ Top.kind = "wrapped"
  /\ Top.fcalls = 1
  /\ ~finished[Top.inst]
  /\ IsFrame(out)
  /\ \E l \in LoopIds : Alive(l) /\ loops[l].inst = Top.inst

\* C10: every string written to the line, the nine frames and the clearing
\* string alike, is 10 characters long, so the line always shows exactly the
\* last string written.
C10_FrameWidth ==
  /\ \A k \in 1..NumFrames : Len(symbol[k]) = FrameWidth
  /\ NumFrames = 9
  /\ out # <<>> => (Len(out) = FrameWidth /\ line = out)

C10_Witness ==
  /\ out = symbol[NumFrames]
  /\ line = out
  /\ \E i \in Inst : clears[i] > 0

\* C11: a loop launched by start() after stop() was called on the instance
\* never gets past its first flag check: it is at that check or has exited,
\* and it has written no frame.
C11_SingleUse ==
  \A l \in LoopIds :
    (Launched(l) /\ loops[l].born) =>
      /\ loops[l].pc \in {"check", "done"}
      /\ loops[l].late = 0
      /\ StopCalled(loops[l].inst)

C11_Witness ==
  \E l \in LoopIds : /\ Terminated(l)
                     /\ loops[l].born
                     /\ loops[l].late = 0
                     /\ out = ClearFrame

LoopsOf(i) == {l \in 1..Len(loops) : loops[l].inst = i}

\* C12: every start() call launches exactly one loop, whatever the state of
\* the instance: the loops ever launched for an instance are as many as the
\* start() calls made on it, and as long as stop() has not been called all
\* of them are running side by side.
C12_OneLoopPerStart ==
  \A i \in Inst :
    /\ Cardinality(LoopsOf(i)) = startCalls[i]
    /\ ~StopCalled(i) => \A l \in LoopsOf(i) : Alive(l)

C12_Witness ==
  \E i \in Inst : /\ startCalls[i] = 2
                  /\ ~StopCalled(i)
                  /\ Cardinality(LoopsOf(i)) = 2
                  /\ \A l \in LoopsOf(i) : loops[l].pc = "print"
                  /\ IsFrame(out)

NotStopped(l) == Launched(l) /\ ~StopCalled(loops[l].inst)

\* C13: nothing but stop() ends a loop: a loop has terminated only if stop()
\* was called on its instance, and a loop whose instance is never stopped
\* writes frames again and again for ever (the loop thread being scheduled
\* fairly): it is infinitely often about to print and infinitely often back
\* at the flag check with the frame printed.
C13_StopSoleCancellation ==
  /\ [](\A l \in LoopIds : Terminated(l) => StopCalled(loops[l].inst))
  /\ \A l \in LoopIds : []<>(~NotStopped(l) \/ loops[l].pc = "print")
  /\ \A l \in LoopIds : []<>(~NotStopped(l) \/ loops[l].pc = "check")

C13_Witness ==
  /\ \A i \in Inst : ~StopCalled(i)
  /\ \E l \in LoopIds : Alive(l)
  /\ out = symbol[NumFrames]
  /\ cursor = 0

\* C14: the frame sequence is one cursor for the whole process: whichever
\* loop of whichever instance writes, the frame written is the one under the
\* cursor and the cursor moves on by one, cyclically over the nine frames;
\* no other step moves the cursor, in particular not creating, starting or
\* stopping an instance. From cursor 0 at the start, the n-th frame taken
\* is thus frame n mod 9 of the cycle.
C14_SharedCursor ==
  /\ [](cursor \in 0..(NumFrames - 1))
  /\ [][(cursor' # cursor \/ (out' # out /\ IsFrame(out'))) =>
          /\ cursor' = (cursor + 1) % NumFrames
          /\ out' = symbol[cursor + 1]]_vars
  /\ [][(kind' # kind \/ stopCalls' # stopCalls \/ clears' # clears
           \/ startCalls' # startCalls) => cursor' = cursor]_vars

C14_Witness ==
  /\ Len(loops) = 2
  /\ loops[1].inst # loops[2].inst
  /\ loops[1].late = 1
  /\ loops[2].late = 1
  /\ cursor = 2
  /\ out = symbol[2]

FuncBegan(fr) == fr.fcalls > 0
FuncEnded(fr) == fr.fout # None \/ fr.raised # None

\* C15: in every wrapped call the Animation is a new one, start() has been
\* called on it (once) by the time func begins, stop() is not called on it
\* before func has returned or raised, and stop() has completed by the time
\* control is back with the caller of wrapped.
C15_WrappedOrdering ==
  /\ \A d \in 1..Depth :
       stack[d].kind = "wrapped" =>
         LET fr == stack[d]
             i  == fr.inst
         IN /\ kind[i] = "wrapped"
            /\ \A e \in 1..Depth : stack[e].inst = i => e = d
            /\ fr.fcalls <= 1
            /\ FuncBegan(fr) => (startCalls[i] = 1 /\ Cardinality(LoopsOf(i)) = 1)
            /\ ~FuncEnded(fr) => (stopCalls[i] = 0 /\ ~finished[i])
            /\ StopCalled(i) => (FuncBegan(fr) /\ FuncEnded(fr))
  /\ (cpc = "left" /\ last.kind = "wrapped") =>
       /\ last.fcalls = 1
       /\ startCalls[last.inst] = 1
       /\ stopCalls[last.inst] = 1
       /\ clears[last.inst] = 1
       /\ finished[last.inst]

C15_Witness ==
  /\ cpc = "exit_ret"
  /\ Top.kind = "wrapped"
  /\ Top.fcalls = 1
  /\ Top.fout = "v1"
  /\ startCalls[Top.inst] = 1
  /\ clears[Top.inst] = 1

\* C16: stop() does not wait for the loop: once its first statement has run,
\* its second can run whatever the loops are doing, and neither statement
\* touches a loop; so stop() returns while a loop of the instance is still
\* alive.
C16_StopDoesNotJoin ==
  /\ [](InStop => ENABLED StopPrint)
  /\ [][(stopCalls' # stopCalls \/ clears' # clears) => loops' = loops]_vars

C16_Witness ==
  \E i \in Inst : /\ StopCalled(i)
                  /\ ~InStop
                  /\ clears[i] = stopCalls[i]
                  /\ \E l \in LoopsOf(i) : loops[l].pc = "print"

C18_InstanceIsolation ==
  /\ [][\A i \in Inst : stopCalls'[i] # stopCalls[i] =>
          \A j \in Inst \ {i} : finished'[j] = finished[j]]_vars
  /\ [][\A l \in LoopIds :
          (Alive(l) /\ loops'[l].pc = "done") => finished[loops[l].inst]]_vars
  /\ [](\A l \in LoopIds :
          Terminated(l) => (StopCalled(loops[l].inst) /\ finished[loops[l].inst]))

C18_Witness ==
  /\ cpc = "run"
  /\ Depth = 1
  /\ Top.kind = "wrapped"
  /\ FuncBegan(Top)
  /\ ~finished[Top.inst]
  /\ \E l \in LoopsOf(Top.inst) : loops[l].pc = "print"
  /\ \E j \in Inst \ {Top.inst} :
       /\ kind[j] = "wrapped"
       /\ finished[j]
       /\ clears[j] = 1
       /\ LoopsOf(j) # {}
       /\ \A l \in LoopsOf(j) : Terminated(l)

\* C19: a single stop() call ends all the loops of the instance: from a
\* state in which start() was called on it one or more times and stop()
\* once, a state is reached in which none of its loops is left running (the
\* loop threads being scheduled fairly).
C19_OneStopEndsAllLoops ==
  \A i \in Inst :
    (stopCalls[i] = 1 /\ LoopsOf(i) # {})
      ~> (\A l \in LoopsOf(i) : Terminated(l))

C19_Witness ==
  \E i \in Inst : /\ stopCalls[i] = 1
                  /\ startCalls[i] = 2
                  /\ Cardinality(LoopsOf(i)) = 2
                  /\ \A l \in LoopsOf(i) : Terminated(l) /\ ~loops[l].born

====
